---- MODULE Spec2Model ----
(***************************************************************************)
(* A model of parse_message (src/main.rs, lines 172-208): the single-pass  *)
(* scanner that extracts the translated segments from the response body    *)
(* of the translation endpoint, and of translate (lines 156-169), which    *)
(* sends the request and hands parse_message what it holds afterwards.     *)
(* Characters are one-character strings.                                   *)
(***************************************************************************)
EXTENDS Naturals, Sequences, FiniteSets, TLC

VARIABLES input, idx, pc, escape, ignore, found_match, matched, translation,
          hist, acc0, prev, calls, search, sent

vars == <<input, idx, pc, escape, ignore, found_match, matched, translation,
          hist, acc0, prev, calls, search, sent>>

----------------------------------------------------------------------------
(* Bounds of the model.                                                    *)

\* longest run of free characters that follows a lead-in
MaxLen == 3
\* most elements "T","S",,,0 of a wire-shaped body
MaxElems == 2
\* most calls of parse_message in one behaviour
MaxCalls == 2

----------------------------------------------------------------------------
(* Characters and strings.                                                 *)

BACKSLASH == "\\"
QUOTE == "\""
COMMA == ","
ZERO == "0"
RBRACKET == "]"
LBRACKET == "["

\* input.chars().skip(4)
Skip == 4

Min(a, b) == IF a < b THEN a ELSE b

\* the characters of s after the first n
Drop(s, n) == IF n >= Len(s) THEN <<>> ELSE SubSeq(s, n + 1, Len(s))

IsPrefix(s, t) == Len(s) <= Len(t) /\ SubSeq(t, 1, Len(s)) = s

RECURSIVE Flatten(_)
Flatten(ss) == IF ss = <<>> THEN <<>> ELSE Head(ss) \o Flatten(Tail(ss))

\* all sequences over S of length 0..n
RECURSIVE SeqsUpTo(_, _)
SeqsUpTo(S, n) ==
    IF n = 0 THEN {<<>>}
    ELSE LET shorter == SeqsUpTo(S, n - 1)
         IN  shorter \cup {Append(s, c) : s \in {t \in shorter : Len(t) = n - 1}, c \in S}

\* all sequences over S of length exactly n
SeqsOfLen(S, n) == {s \in SeqsUpTo(S, n) : Len(s) = n}

----------------------------------------------------------------------------
(* The inputs.                                                             *)

\* the prefix the endpoint sends: three opening brackets and the opening
\* quote of the first translated literal
WirePrefix == <<LBRACKET, LBRACKET, LBRACKET, QUOTE>>
\* another four characters, none of which the endpoint would send
OtherPrefix == <<"n", BACKSLASH, QUOTE, "n">>
Prefixes == {WirePrefix, OtherPrefix}

Sentinel == <<COMMA, COMMA, COMMA, ZERO, RBRACKET>>

\* free inputs: a lead-in that puts the scanner in one of its modes, then
\* every run of at most MaxLen characters
Alphabet == {"n", BACKSLASH, QUOTE, COMMA, ZERO, RBRACKET}
Heads == {<<>>, <<QUOTE>>, <<QUOTE>> \o Sentinel, <<QUOTE>> \o Sentinel \o <<COMMA>>}
FreeBodies == {h \o t : h \in Heads, t \in SeqsUpTo(Alphabet, MaxLen)}

\* wire-shaped inputs: after the prefix, T_1","S_1",,,0 then, for each later
\* element, ],["T_i","S_i",,,0 and at last ]] and the trailing text
TTexts == {<<>>, <<"a">>, <<"c", COMMA, ZERO>>}
STexts == {<<"b">>, <<COMMA, COMMA, COMMA, ZERO>>}
Trailers == {<<>>, <<COMMA, QUOTE, "n", QUOTE>> \o Sentinel \o <<COMMA, LBRACKET, QUOTE, "n">>}

Element(t, s) ==
    t \o <<QUOTE, COMMA, QUOTE>> \o s \o <<QUOTE, COMMA, COMMA, COMMA, ZERO>>

RECURSIVE Elements(_, _)
Elements(ts, ss) ==
    IF Len(ts) = 1 THEN Element(ts[1], ss[1])
    ELSE Element(ts[1], ss[1]) \o <<RBRACKET, COMMA, LBRACKET, QUOTE>>
            \o Elements(Tail(ts), Tail(ss))

WireBody(w) == Elements(w.T, w.S) \o <<RBRACKET, RBRACKET>> \o w.trail

WireShapes ==
    UNION {[T : SeqsOfLen(TTexts, n), S : SeqsOfLen(STexts, n), trail : Trailers]
             : n \in 1..MaxElems}

\* each wire-shaped body with the text the endpoint means by it
WireTable == {<<WireBody(w), Flatten(w.T)>> : w \in WireShapes}

\* inputs with the run ,,,0]] read in skip mode: the closing quote, nothing or
\* the beginning of a sentinel, the run, and nothing or the end of an
\* element and the opening of the next
RunLeads == {<<QUOTE>> \o SubSeq(Sentinel, 1, n) : n \in 0..Len(Sentinel)}
StreamEnd == Sentinel \o <<RBRACKET>>
RunTails == {<<>>, Sentinel \o <<COMMA, LBRACKET, QUOTE, "n">>}
RunBodies == {<<"a">> \o l \o StreamEnd \o t : l \in RunLeads, t \in RunTails}

\* inputs shorter than the prefix
ShortInputs == {SubSeq(WirePrefix, 1, n) : n \in 0..(Skip - 1)}

Inputs ==
    ShortInputs
      \cup {WirePrefix \o b : b \in FreeBodies}
      \cup {WirePrefix \o b : b \in RunBodies}
      \cup {WirePrefix \o p[1] : p \in WireTable}

\* the same text behind another prefix
Reprefix(p, s) == IF Len(s) < Skip THEN s ELSE p \o Drop(s, Skip)

----------------------------------------------------------------------------
(* The request of translate.                                               *)

\* const TRANSLATE
TRANSLATE ==
    <<"h", "t", "t", "p", ":", "/", "/", "t", "r", "a", "n", "s", "l", "a",
      "t", "e", ".", "g", "o", "o", "g", "l", "e", "a", "p", "i", "s", ".",
      "c", "o", "m", "/", "t", "r", "a", "n", "s", "l", "a", "t", "e", "_",
      "a", "/", "s", "i", "n", "g", "l", "e", "?", "c", "l", "i", "e", "n",
      "t", "=", "g", "t", "x", "&", "s", "l", "=", "a", "u", "t", "o", "&",
      "t", "l", "=">>

\* "&dt=t&q="
QueryDirective ==
    <<"&", "d", "t", "=", "t", "&", "q", "=">>

\* codes that match_language yields
Languages == {<<"E", "N">>, <<"E", "O">>}

\* phrases to translate, one of them with a double quote in it
Phrases == {<<"h", "i">>, <<"a", QUOTE, "b">>}

\* search, once the four push_str have run
RequestUrl(phrase, language) == TRANSLATE \o language \o QueryDirective \o phrase

\* bodies the endpoint answers with
Bodies == {<<>>, WirePrefix \o WireBody([T |-> <<<<"a">>>>, S |-> <<<<"b">>>>, trail |-> <<>>])}

\* what send() and read_to_string() may do: the request fails, the body
\* cannot be read, or a body is received
SendOutcomes ==
    {[kind |-> "err", body |-> <<>>], [kind |-> "read_err", body |-> <<>>]}
      \cup {[kind |-> "ok", body |-> b] : b \in Bodies}

----------------------------------------------------------------------------
(* The scanner.                                                            *)

\* what one iteration of the loop leaves: the four locals, the characters
\* pushed onto the translation, and how the iteration ends
Outcome(e, i, f, m, push, ctl) ==
    [escape |-> e, ignore |-> i, found_match |-> f, matched |-> m,
     push |-> push, ctl |-> ctl]

\* the four locals of parse_message
Locals(e, i, f, m) == [escape |-> e, ignore |-> i, found_match |-> f, matched |-> m]

\* Fresh, were the locals kept from one call to the next
FreshStale(s) == s

\* the locals as a call finds them when it declares them anew, whatever an
\* earlier call left in s
Fresh(s) == Locals(FALSE, FALSE, FALSE, 0)

\* PostSentinel, were the one-shot skip to end after a single character
PostSentinelOnce(s) ==
    CASE s.matched = 0 -> Outcome(s.escape, s.ignore, FALSE, 0, <<>>, "next")
      [] OTHER -> Outcome(s.escape, s.ignore, s.found_match, s.matched, <<>>, "panic")

\* PostSentinel, were the arm that ends the skip to leave the counter at 1
PostSentinelLeave(s) ==
    CASE s.matched = 0 -> Outcome(s.escape, s.ignore, s.found_match, 1, <<>>, "next")
      [] s.matched = 1 -> Outcome(s.escape, s.ignore, FALSE, 1, <<>>, "next")
      [] OTHER -> Outcome(s.escape, s.ignore, s.found_match, s.matched, <<>>, "panic")

\* if found_match { matched = match matched { ... } }
PostSentinel(s) ==
    CASE s.matched = 0 -> Outcome(s.escape, s.ignore, s.found_match, 1, <<>>, "next")
      [] s.matched = 1 -> Outcome(s.escape, s.ignore, FALSE, 0, <<>>, "next")
      [] OTHER -> Outcome(s.escape, s.ignore, s.found_match, s.matched, <<>>, "panic")

\* SentinelScan, were the arm (5, ']') to go on like the arm (5, _)
SentinelScanNoBreak(s, c) ==
    CASE s.matched = 0 /\ c = COMMA ->
             Outcome(s.escape, s.ignore, s.found_match, 1, <<>>, "next")
      [] s.matched = 1 /\ c = COMMA ->
             Outcome(s.escape, s.ignore, s.found_match, 2, <<>>, "next")
      [] s.matched = 2 /\ c = COMMA ->
             Outcome(s.escape, s.ignore, s.found_match, 3, <<>>, "next")
      [] s.matched = 3 /\ c = ZERO ->
             Outcome(s.escape, s.ignore, s.found_match, 4, <<>>, "next")
      [] s.matched = 4 /\ c = RBRACKET ->
             Outcome(s.escape, s.ignore, s.found_match, 5, <<>>, "next")
      [] s.matched = 5 ->
             Outcome(s.escape, FALSE, TRUE, 0, <<>>, "next")
      [] OTHER ->
             Outcome(s.escape, s.ignore, s.found_match, 0, <<>>, "next")

\* SentinelScan, were the arm (5, _) to leave the counter where it is
SentinelScanKeep(s, c) ==
    CASE s.matched = 0 /\ c = COMMA ->
             Outcome(s.escape, s.ignore, s.found_match, 1, <<>>, "next")
      [] s.matched = 1 /\ c = COMMA ->
             Outcome(s.escape, s.ignore, s.found_match, 2, <<>>, "next")
      [] s.matched = 2 /\ c = COMMA ->
             Outcome(s.escape, s.ignore, s.found_match, 3, <<>>, "next")
      [] s.matched = 3 /\ c = ZERO ->
             Outcome(s.escape, s.ignore, s.found_match, 4, <<>>, "next")
      [] s.matched = 4 /\ c = RBRACKET ->
             Outcome(s.escape, s.ignore, s.found_match, 5, <<>>, "next")
      [] s.matched = 5 /\ c = RBRACKET ->
             Outcome(s.escape, s.ignore, s.found_match, s.matched, <<>>, "break")
      [] s.matched = 5 /\ c # RBRACKET ->
             Outcome(s.escape, FALSE, TRUE, s.matched, <<>>, "next")
      [] OTHER ->
             Outcome(s.escape, s.ignore, s.found_match, 0, <<>>, "next")

\* SentinelScan, were a comma that breaks a match to begin the next one
SentinelScanRestart(s, c) ==
    CASE s.matched = 0 /\ c = COMMA ->
             Outcome(s.escape, s.ignore, s.found_match, 1, <<>>, "next")
      [] s.matched = 1 /\ c = COMMA ->
             Outcome(s.escape, s.ignore, s.found_match, 2, <<>>, "next")
      [] s.matched = 2 /\ c = COMMA ->
             Outcome(s.escape, s.ignore, s.found_match, 3, <<>>, "next")
      [] s.matched = 3 /\ c = ZERO ->
             Outcome(s.escape, s.ignore, s.found_match, 4, <<>>, "next")
      [] s.matched = 4 /\ c = RBRACKET ->
             Outcome(s.escape, s.ignore, s.found_match, 5, <<>>, "next")
      [] s.matched = 5 /\ c = RBRACKET ->
             Outcome(s.escape, s.ignore, s.found_match, s.matched, <<>>, "break")
      [] s.matched = 5 /\ c # RBRACKET ->
             Outcome(s.escape, FALSE, TRUE, 0, <<>>, "next")
      [] OTHER ->
             Outcome(s.escape, s.ignore, s.found_match,
                     IF c = COMMA THEN 1 ELSE 0, <<>>, "next")

\* SentinelScan, were the character that fires the element end pushed
SentinelScanPush(s, c) ==
    CASE s.matched = 0 /\ c = COMMA ->
             Outcome(s.escape, s.ignore, s.found_match, 1, <<>>, "next")
      [] s.matched = 1 /\ c = COMMA ->
             Outcome(s.escape, s.ignore, s.found_match, 2, <<>>, "next")
      [] s.matched = 2 /\ c = COMMA ->
             Outcome(s.escape, s.ignore, s.found_match, 3, <<>>, "next")
      [] s.matched = 3 /\ c = ZERO ->
             Outcome(s.escape, s.ignore, s.found_match, 4, <<>>, "next")
      [] s.matched = 4 /\ c = RBRACKET ->
             Outcome(s.escape, s.ignore, s.found_match, 5, <<>>, "next")
      [] s.matched = 5 /\ c = RBRACKET ->
             Outcome(s.escape, s.ignore, s.found_match, s.matched, <<>>, "break")
      [] s.matched = 5 /\ c # RBRACKET ->
             Outcome(s.escape, FALSE, TRUE, 0, <<c>>, "next")
      [] OTHER ->
             Outcome(s.escape, s.ignore, s.found_match, 0, <<>>, "next")

\* else if ignore { matched = match (matched, character) { ... } }
SentinelScan(s, c) ==
    CASE s.matched = 0 /\ c = COMMA ->
             Outcome(s.escape, s.ignore, s.found_match, 1, <<>>, "next")
      [] s.matched = 1 /\ c = COMMA ->
             Outcome(s.escape, s.ignore, s.found_match, 2, <<>>, "next")
      [] s.matched = 2 /\ c = COMMA ->
             Outcome(s.escape, s.ignore, s.found_match, 3, <<>>, "next")
      [] s.matched = 3 /\ c = ZERO ->
             Outcome(s.escape, s.ignore, s.found_match, 4, <<>>, "next")
      [] s.matched = 4 /\ c = RBRACKET ->
             Outcome(s.escape, s.ignore, s.found_match, 5, <<>>, "next")
      [] s.matched = 5 /\ c = RBRACKET ->
             Outcome(s.escape, s.ignore, s.found_match, s.matched, <<>>, "break")
      [] s.matched = 5 /\ c # RBRACKET ->
             Outcome(s.escape, FALSE, TRUE, 0, <<>>, "next")
      [] OTHER ->
             Outcome(s.escape, s.ignore, s.found_match, 0, <<>>, "next")

\* NormalScan, were the quote tested before the pending escape
NormalScanQuoteFirst(s, c) ==
    IF c = BACKSLASH /\ ~s.escape
      THEN Outcome(TRUE, s.ignore, s.found_match, s.matched, <<>>, "next")
    ELSE IF c = QUOTE
      THEN Outcome(s.escape, TRUE, s.found_match, s.matched, <<>>, "next")
    ELSE IF s.escape
      THEN Outcome(FALSE, s.ignore, s.found_match, s.matched, <<c>>, "next")
    ELSE Outcome(s.escape, s.ignore, s.found_match, s.matched, <<c>>, "next")

\* NormalScan, were the escaping backslash pushed as well
NormalScanKeepBackslash(s, c) ==
    IF c = BACKSLASH /\ ~s.escape
      THEN Outcome(TRUE, s.ignore, s.found_match, s.matched, <<c>>, "next")
    ELSE IF s.escape
      THEN Outcome(FALSE, s.ignore, s.found_match, s.matched, <<c>>, "next")
    ELSE IF c = QUOTE
      THEN Outcome(s.escape, TRUE, s.found_match, s.matched, <<>>, "next")
    ELSE Outcome(s.escape, s.ignore, s.found_match, s.matched, <<c>>, "next")

\* NormalScan, were an escaped n decoded as a line feed
NormalScanDecode(s, c) ==
    IF c = BACKSLASH /\ ~s.escape
      THEN Outcome(TRUE, s.ignore, s.found_match, s.matched, <<>>, "next")
    ELSE IF s.escape
      THEN Outcome(FALSE, s.ignore, s.found_match, s.matched,
                   <<IF c = "n" THEN "\n" ELSE c>>, "next")
    ELSE IF c = QUOTE
      THEN Outcome(s.escape, TRUE, s.found_match, s.matched, <<>>, "next")
    ELSE Outcome(s.escape, s.ignore, s.found_match, s.matched, <<c>>, "next")

\* else if character == '\\' && !escape ... else { translation.push(character) }
NormalScan(s, c) ==
    IF c = BACKSLASH /\ ~s.escape
      THEN Outcome(TRUE, s.ignore, s.found_match, s.matched, <<>>, "next")
    ELSE IF s.escape
      THEN Outcome(FALSE, s.ignore, s.found_match, s.matched, <<c>>, "next")
    ELSE IF c = QUOTE
      THEN Outcome(s.escape, TRUE, s.found_match, s.matched, <<>>, "next")
    ELSE Outcome(s.escape, s.ignore, s.found_match, s.matched, <<c>>, "next")

\* the body of the for loop
Body(s, c) ==
    IF s.found_match THEN PostSentinel(s)
    ELSE IF s.ignore THEN SentinelScan(s, c)
    ELSE NormalScan(s, c)

\* Push, were the character assigned instead of appended
PushOverwrite(t, c) == <<c>>

\* translation.push(character)
Push(t, c) == Append(t, c)

RECURSIVE PushAll(_, _)
PushAll(t, cs) == IF cs = <<>> THEN t ELSE PushAll(Push(t, Head(cs)), Tail(cs))

\* Start, were one character too few dropped
StartThree(s) == Min(Skip - 1, Len(s))

\* where the iterator stands once skip(4) has dropped its characters
Start(s) == Min(Skip, Len(s))

\* Advance, were the character read without being consumed
AdvanceStall(i) == i

\* the iterator moves past the character it yields
Advance(i) == i + 1

----------------------------------------------------------------------------
(* The state machine.                                                      *)

Scanner == Locals(escape, ignore, found_match, matched)

\* the scanner and the translation as one entry of the history
Snapshot(s, t) == [escape |-> s.escape, ignore |-> s.ignore,
                   found_match |-> s.found_match, matched |-> s.matched, out |-> t]

\* no earlier call
NoCall == [input |-> <<>>, acc0 |-> <<>>, hist |-> <<>>, translation |-> <<>>]
NoLocals == Locals(FALSE, FALSE, FALSE, 0)

\* either parse_message is called on a text, as the test calls it, or
\* translate has built its request and is about to send it
Init ==
    /\ \/ /\ input \in Inputs
          /\ pc = "loop"
          /\ search = <<>>
       \/ /\ input = <<>>
          /\ pc = "send"
          /\ \E phrase \in Phrases, language \in Languages :
                search = RequestUrl(phrase, language)
    /\ sent = "none"
    /\ translation = <<>>
    /\ idx = Start(input)
    /\ escape = Fresh(NoLocals).escape
    /\ ignore = Fresh(NoLocals).ignore
    /\ found_match = Fresh(NoLocals).found_match
    /\ matched = Fresh(NoLocals).matched
    /\ hist = <<Snapshot(Fresh(NoLocals), translation)>>
    /\ acc0 = translation
    /\ prev = NoCall
    /\ calls = 1

\* one iteration of the for loop, on the next character
Step ==
    /\ pc = "loop"
    /\ idx < Len(input)
    /\ LET r == Body(Scanner, input[idx + 1])
           t == PushAll(translation, r.push)
       IN  /\ escape' = r.escape
           /\ ignore' = r.ignore
           /\ found_match' = r.found_match
           /\ matched' = r.matched
           /\ translation' = t
           /\ hist' = Append(hist, Snapshot(r, t))
           /\ pc' = CASE r.ctl = "next" -> "loop"
                      [] r.ctl = "break" -> "returned"
                      [] OTHER -> "panic"
    /\ idx' = Advance(idx)
    /\ UNCHANGED <<input, acc0, prev, calls, search, sent>>

\* the iterator is exhausted: the loop ends and parse_message returns
Return ==
    /\ pc = "loop"
    /\ idx = Len(input)
    /\ pc' = "returned"
    /\ UNCHANGED <<input, idx, escape, ignore, found_match, matched, translation,
                   hist, acc0, prev, calls, search, sent>>

\* the caller runs parse_message again, on the same text or on the same text
\* behind another prefix, with the same buffer
Call ==
    /\ pc = "returned"
    /\ calls < MaxCalls
    /\ \E p \in Prefixes \cup {SubSeq(input, 1, Start(input))} :
          /\ input' = Reprefix(p, input)
          /\ idx' = Start(input')
    /\ translation' = translation
    /\ acc0' = translation
    /\ escape' = Fresh(Scanner).escape
    /\ ignore' = Fresh(Scanner).ignore
    /\ found_match' = Fresh(Scanner).found_match
    /\ matched' = Fresh(Scanner).matched
    /\ hist' = <<Snapshot(Fresh(Scanner), translation)>>
    /\ prev' = [input |-> input, acc0 |-> acc0, hist |-> hist,
                translation |-> translation]
    /\ pc' = "loop"
    /\ calls' = calls + 1
    /\ sent' = "none"
    /\ UNCHANGED search

\* translate sends its request: when a response comes, search is cleared and
\* the body is read into it, and a body that cannot be read is a panic; then
\* parse_message is called on search, whatever it holds
Send ==
    /\ pc = "send"
    /\ \E o \in SendOutcomes :
          /\ sent' = o.kind
          /\ search' = IF o.kind = "ok" THEN o.body ELSE search
          /\ input' = IF o.kind = "read_err" THEN input ELSE search'
          /\ pc' = IF o.kind = "read_err" THEN "read_panic" ELSE "loop"
    /\ idx' = Start(input')
    /\ UNCHANGED <<escape, ignore, found_match, matched, translation, hist, acc0,
                   prev, calls>>

Next == Step \/ Return \/ Call \/ Send

Spec == Init /\ [][Next]_vars

----------------------------------------------------------------------------
(* What the properties speak of.                                           *)

\* the loop iterations of this call so far
Steps == Len(hist) - 1

\* the character the k-th iteration reads; hist[k] is the state it starts
\* in and hist[k + 1] the state it leaves
Char(k) == input[Start(input) + k]

\* the text this call has appended, and the text the call before it appended
Appended == Drop(translation, Len(acc0))
PrevAppended == Drop(prev.translation, Len(prev.acc0))

\* the input after its four-character prefix
Rest(s) == Drop(s, Skip)

Modes(h) == Locals(h.escape, h.ignore, h.found_match, h.matched)
InNormal(h) == ~h.ignore /\ ~h.found_match
AtFive(h) == h.ignore /\ ~h.found_match /\ h.matched = 5

\* the k-th iteration reads the ] that completes ,,,0]]
Halts(k) == AtFive(hist[k]) /\ Char(k) = RBRACKET
\* the k-th iteration reads the character that fires the element-end sentinel
Fires(k) == AtFive(hist[k]) /\ Char(k) # RBRACKET

\* this call ended at the stream-end sentinel
Halted == pc = "returned" /\ Steps >= 1 /\ Halts(Steps)

Monus(a, b) == IF a > b THEN a - b ELSE 0

----------------------------------------------------------------------------
(* C1: on a wire-shaped input (a four-character prefix that ends with the  *)
(* opening quote of the first element, then the elements T_i","S_i",,,0    *)
(* joined by ],[" and closed by ]], then any trailing text) parse_message  *)
(* does not panic and appends exactly T_1 T_2 ... T_n.                     *)
T_C1 ==
    pc # "loop" =>
        \A p \in WireTable :
            (Len(input) >= Skip /\ Rest(input) = p[1]) =>
                pc = "returned" /\ Appended = p[2]

\* a two-element input with a trailing text has been scanned
W_C1 ==
    /\ pc = "returned"
    /\ idx < Len(input)
    /\ Appended = <<"a", "c", COMMA, ZERO>>
    /\ \E p \in WireTable : Rest(input) = p[1] /\ p[2] = Appended

(* C2: once an iteration in skip mode with the counter at 5 reads ], it is *)
(* the last iteration of the call: parse_message has returned, the         *)
(* iterator stands right after that ], and the locals and the translation  *)
(* are what they were before it.                                           *)
T_C2 ==
    \A k \in 1..Steps :
        Halts(k) =>
            /\ k = Steps
            /\ pc = "returned"
            /\ idx = Start(input) + k
            /\ Scanner = Modes(hist[k])
            /\ translation = hist[k].out

\* the scan halted with input left over and something appended
W_C2 == Halted /\ idx + 2 <= Len(input) /\ Appended # <<>>

(* C3: an iteration in normal mode with no escape pending that reads a     *)
(* backslash appends nothing, and the iteration after it appends exactly   *)
(* the character it reads, whatever it is, and leaves the scanner in       *)
(* normal mode with no escape pending.                                     *)
T_C3 ==
    \A k \in 1..Steps :
        (InNormal(hist[k]) /\ ~hist[k].escape /\ Char(k) = BACKSLASH) =>
            /\ hist[k + 1].out = hist[k].out
            /\ k + 1 <= Steps =>
                  /\ hist[k + 2].out = Append(hist[k].out, Char(k + 1))
                  /\ InNormal(hist[k + 2])
                  /\ ~hist[k + 2].escape
                  /\ hist[k + 2].matched = hist[k].matched

\* an escaped quote was read, and a letter after it
W_C3 ==
    \E k \in 1..Steps :
        /\ k + 2 <= Steps
        /\ InNormal(hist[k]) /\ ~hist[k].escape
        /\ Char(k) = BACKSLASH /\ Char(k + 1) = QUOTE /\ Char(k + 2) = "n"
        /\ hist[k + 3].out = hist[k].out \o <<QUOTE, "n">>

(* C4: parse_message never panics, and whenever found_match is true the    *)
(* counter matched is 0 or 1.                                              *)
T_C4 == pc # "panic" /\ (found_match => matched \in {0, 1})

W_C4 == found_match /\ matched = 1

(* C5: every iteration consumes exactly one character, so there are at     *)
(* most max(0, length - 4) of them; the iterator never passes the end of   *)
(* the input, so while the loop runs either an iteration or the return is  *)
(* possible; and a call that returns without having read the stream-end    *)
(* sentinel has consumed the whole input.                                  *)
T_C5 ==
    /\ pc # "panic"
    /\ idx = Start(input) + Steps
    /\ idx <= Len(input)
    /\ Steps <= Monus(Len(input), Skip)
    /\ pc = "loop" => (ENABLED Step \/ ENABLED Return)
    /\ (pc = "returned" /\ ~Halted) => idx = Len(input)

\* a call returned at the end of an input that has no stream-end sentinel
W_C5 ==
    /\ pc = "returned"
    /\ ~Halted
    /\ Steps >= 3
    /\ Steps = Monus(Len(input), Skip)
    /\ Appended # <<>>

(* C6: an input of four or fewer characters makes no iteration and leaves  *)
(* the translation as it was; and a call on the text of the call before    *)
(* it, behind whatever other four characters, appends what that call       *)
(* appended.                                                               *)
T_C6 ==
    /\ Len(input) <= Skip => (pc # "panic" /\ Steps = 0 /\ translation = acc0)
    /\ ( /\ pc = "returned"
         /\ calls >= 2
         /\ Len(prev.input) = Len(input)
         /\ Rest(prev.input) = Rest(input) ) => Appended = PrevAppended

\* the same text was scanned behind two different prefixes
W_C6 ==
    /\ pc = "returned"
    /\ calls >= 2
    /\ prev.input # input
    /\ Rest(prev.input) = Rest(input)
    /\ Len(Appended) >= 2

\* s with every escaping backslash removed and the escaped character kept
RECURSIVE Unescape(_)
Unescape(s) ==
    IF s = <<>> THEN <<>>
    ELSE IF Head(s) = BACKSLASH
      THEN IF Len(s) = 1 THEN <<>> ELSE <<s[2]>> \o Unescape(Drop(s, 2))
    ELSE <<Head(s)>> \o Unescape(Tail(s))

\* s has no double quote but escaped ones
RECURSIVE NoBareQuote(_)
NoBareQuote(s) ==
    IF s = <<>> THEN TRUE
    ELSE IF Head(s) = BACKSLASH THEN NoBareQuote(Drop(s, 2))
    ELSE IF Head(s) = QUOTE THEN FALSE
    ELSE NoBareQuote(Tail(s))

(* C7: on an input with no unescaped double quote after the prefix,        *)
(* parse_message does not panic, consumes the whole input, and appends the *)
(* characters after the prefix with each escaping backslash removed and    *)
(* the escaped character kept.                                             *)
T_C7 ==
    (pc \in {"returned", "panic"} /\ NoBareQuote(Rest(input))) =>
        /\ pc = "returned"
        /\ idx = Len(input)
        /\ Appended = Unescape(Rest(input))

\* such an input with an escaped quote and a plain letter was scanned
W_C7 ==
    /\ pc = "returned"
    /\ NoBareQuote(Rest(input))
    /\ Len(Rest(input)) = 3
    /\ Appended \in {<<QUOTE, "n">>, <<"n", QUOTE>>}

(* C8: a call on the same input as the call before it appends the same     *)
(* text, whatever the buffer held and whatever state the earlier call      *)
(* ended in.                                                               *)
T_C8 ==
    (pc = "returned" /\ calls >= 2 /\ prev.input = input) =>
        Appended = PrevAppended

\* the second of two calls on one input returned; the first ended in skip
\* mode, and the buffer held other text each time
W_C8 ==
    /\ pc = "returned"
    /\ calls >= 2
    /\ prev.input = input
    /\ prev.hist[Len(prev.hist)].ignore
    /\ acc0 # prev.acc0
    /\ Appended # <<>>

(* C9: the translation only grows: what the buffer held at the call is a   *)
(* prefix of it, and each iteration leaves a translation that extends the  *)
(* one it found; and the buffer is not read: a call on the same input as   *)
(* the call before it, with another buffer content, goes through the same  *)
(* values of the locals.                                                   *)
T_C9 ==
    /\ hist[1].out = acc0
    /\ hist[Len(hist)].out = translation
    /\ IsPrefix(acc0, translation)
    /\ \A k \in 1..Steps : IsPrefix(hist[k].out, hist[k + 1].out)
    /\ (calls >= 2 /\ prev.input = input) =>
           \A k \in 1..Len(hist) : Modes(hist[k]) = Modes(prev.hist[k])

\* a call that found text in the buffer has appended to it
W_C9 ==
    /\ calls >= 2
    /\ prev.input = input
    /\ acc0 # <<>>
    /\ Len(translation) >= Len(acc0) + 2
    /\ pc = "returned"

(* C10, as stated: after the iteration that fires the element-end sentinel *)
(* one further character is consumed without being pushed and the          *)
(* post-sentinel skip is then off, so that the second character after the  *)
(* firing one is met in normal mode.                                       *)
Orig_C10 ==
    \A k \in 1..Steps :
        (Fires(k) /\ k + 1 <= Steps) =>
            /\ hist[k + 1].found_match
            /\ hist[k + 2].out = hist[k].out
            /\ InNormal(hist[k + 2])

(* C10, amended: after the iteration that fires the element-end sentinel   *)
(* two further characters are consumed without being pushed and the        *)
(* post-sentinel skip is then off, so that the third character after the   *)
(* firing one is met in normal mode with no escape pending and the counter *)
(* at 0: it is pushed unless it is a backslash or a double quote.          *)
T_C10 ==
    \A k \in 1..Steps :
        Fires(k) =>
            /\ hist[k + 1].found_match /\ hist[k + 1].out = hist[k].out
            /\ k + 1 <= Steps =>
                  hist[k + 2].found_match /\ hist[k + 2].out = hist[k].out
            /\ k + 2 <= Steps =>
                  /\ hist[k + 3].out = hist[k].out
                  /\ Modes(hist[k + 3]) = Locals(FALSE, FALSE, FALSE, 0)
            /\ (k + 3 <= Steps /\ Char(k + 3) \notin {BACKSLASH, QUOTE}) =>
                  hist[k + 4].out = Append(hist[k].out, Char(k + 3))

\* the sentinel fired and the third character after it was pushed
W_C10 ==
    \E k \in 1..Steps :
        /\ Fires(k)
        /\ k + 3 <= Steps
        /\ Char(k + 2) = "n"
        /\ Char(k + 3) = "n"
        /\ hist[k + 4].out = Append(hist[k].out, "n")

(* C11: when the request of translate fails, parse_message is not handed   *)
(* the request URL and nothing is appended to the output.                  *)
Claim_C11 ==
    sent = "err" => (input # search /\ Steps = 0 /\ translation = acc0)

\* the k-th iteration starts in skip mode
InSkip(k) == hist[k].ignore /\ ~hist[k].found_match

(* C12: an iteration in skip mode with the counter at m < 5 leaves the     *)
(* scanner in skip mode, with the counter at m + 1 when it reads the       *)
(* character of ,,,0] at position m + 1 and at 0 when it reads any other,  *)
(* and pushes nothing; with the counter at 5 it ends the call on ] and on  *)
(* any other character leaves skip mode for the post-sentinel skip with    *)
(* the counter at 0.                                                       *)
T_C12 ==
    \A k \in 1..Steps :
        InSkip(k) =>
            /\ hist[k].matched <= 5
            /\ hist[k + 1].out = hist[k].out
            /\ hist[k].matched <= 4 =>
                  /\ hist[k + 1].ignore
                  /\ ~hist[k + 1].found_match
                  /\ hist[k + 1].matched =
                        IF Char(k) = Sentinel[hist[k].matched + 1]
                          THEN hist[k].matched + 1 ELSE 0
            /\ (hist[k].matched = 5 /\ Char(k) = RBRACKET) =>
                  k = Steps /\ pc = "returned"
            /\ (hist[k].matched = 5 /\ Char(k) # RBRACKET) =>
                  /\ ~hist[k + 1].ignore
                  /\ hist[k + 1].found_match
                  /\ hist[k + 1].matched = 0

\* a comma read at position 3 and a comma read at position 4 have reset the
\* counter, and later the counter has reached 5
W_C12 ==
    /\ \E k \in 1..Steps :
          InSkip(k) /\ hist[k].matched = 3 /\ Char(k) = COMMA /\ hist[k + 1].matched = 0
    /\ \E k \in 1..Steps : InSkip(k) /\ hist[k].matched = 5

\* the k-th iteration reads the first character of a run ,,,0]]
RunAt(k) ==
    /\ Start(input) + k + Len(StreamEnd) - 1 <= Len(input)
    /\ SubSeq(input, Start(input) + k, Start(input) + k + Len(StreamEnd) - 1) = StreamEnd

(* C13: when an iteration in skip mode, whatever the counter, reads the    *)
(* first character of a run ,,,0]], the call ends at the last character    *)
(* of the run: no later character is read and nothing of the run or after  *)
(* it is pushed.                                                           *)
Claim_C13 ==
    \A k \in 1..Steps :
        (InSkip(k) /\ RunAt(k)) =>
            /\ Steps <= k + Len(StreamEnd) - 1
            /\ translation = hist[k].out
            /\ Steps = k + Len(StreamEnd) - 1 => pc = "returned"

(* C14: whenever ignore and found_match are both false the counter is 0,   *)
(* so an iteration in normal mode with no escape pending that reads a      *)
(* double quote leaves the scanner in skip mode with the counter at 0.     *)
T_C14 ==
    /\ (~ignore /\ ~found_match) => matched = 0
    /\ \A k \in 1..(Steps + 1) : InNormal(hist[k]) => hist[k].matched = 0
    /\ \A k \in 1..Steps :
          (InNormal(hist[k]) /\ ~hist[k].escape /\ Char(k) = QUOTE) =>
              /\ hist[k + 1].ignore
              /\ ~hist[k + 1].found_match
              /\ hist[k + 1].matched = 0
              /\ hist[k + 1].out = hist[k].out

\* a double quote was read in normal mode after a post-sentinel skip
W_C14 ==
    \E j, k \in 1..Steps :
        /\ j < k
        /\ hist[j].found_match
        /\ InNormal(hist[k]) /\ ~hist[k].escape /\ Char(k) = QUOTE
        /\ hist[k + 1].ignore

(* C15: at most one of escape, ignore and found_match is true, in the      *)
(* state and in every entry of the history.                                *)
T_C15 ==
    /\ ~(ignore /\ found_match)
    /\ escape => (~ignore /\ ~found_match)
    /\ \A k \in 1..(Steps + 1) :
          /\ ~(hist[k].ignore /\ hist[k].found_match)
          /\ hist[k].escape => InNormal(hist[k])

\* an escape is pending in a call that has been through skip mode and the
\* post-sentinel skip
W_C15 ==
    /\ escape
    /\ \E k \in 1..Steps : hist[k].ignore
    /\ \E k \in 1..Steps : hist[k].found_match

\* the characters that the iterations j..k read
Read(j, k) == SubSeq(input, Start(input) + j, Start(input) + k)

(* C16: the counter is within 0..5, and when it is 5 the scanner is in     *)
(* skip mode and the five characters read last are ,,,0], or the call has  *)
(* halted on the ] that follows them.                                      *)
T_C16 ==
    /\ matched \in 0..5
    /\ matched = 5 =>
          /\ ignore
          /\ ~found_match
          /\ IF Halted
               THEN Steps >= 6 /\ Read(Steps - 5, Steps - 1) = Sentinel
               ELSE Steps >= 5 /\ Read(Steps - 4, Steps) = Sentinel

\* the counter is at 5 while the loop runs, after a counter that fell back
W_C16 ==
    /\ matched = 5
    /\ pc = "loop"
    /\ \E k \in 1..Steps : hist[k].matched = 4 /\ hist[k + 1].matched = 0

(* C17: an iteration in skip mode or in the post-sentinel skip pushes      *)
(* nothing, the one that fires the element-end sentinel included; and an   *)
(* iteration that pushes starts in normal mode and reads neither a         *)
(* backslash nor a double quote unless an escape is pending.               *)
T_C17 ==
    \A k \in 1..Steps :
        /\ (hist[k].ignore \/ hist[k].found_match) => hist[k + 1].out = hist[k].out
        /\ hist[k + 1].out # hist[k].out =>
              /\ InNormal(hist[k])
              /\ hist[k].escape \/ Char(k) \notin {BACKSLASH, QUOTE}

\* the element-end sentinel fired without a push and a later iteration pushed
W_C17 ==
    \E k \in 1..Steps :
        /\ Fires(k)
        /\ hist[k + 1].out = hist[k].out
        /\ k + 3 <= Steps
        /\ hist[k + 4].out # hist[k + 3].out

\* s can be had from t by leaving characters out
RECURSIVE IsSubseq(_, _)
IsSubseq(s, t) ==
    IF s = <<>> THEN TRUE
    ELSE IF t = <<>> THEN FALSE
    ELSE IF Head(s) = Head(t) THEN IsSubseq(Tail(s), Tail(t))
    ELSE IsSubseq(s, Tail(t))

(* C18: every iteration pushes nothing or exactly the character it read,   *)
(* so the text appended is a subsequence of the input after its first four *)
(* characters and is no longer than max(0, length - 4).                    *)
T_C18 ==
    /\ \A k \in 1..Steps :
          hist[k + 1].out \in {hist[k].out, Append(hist[k].out, Char(k))}
    /\ Len(Appended) <= Monus(Len(input), Skip)
    /\ IsSubseq(Appended, Rest(input))

\* a call has returned having pushed some of the characters and not others
W_C18 ==
    /\ pc = "returned"
    /\ Len(Appended) >= 2
    /\ Len(Appended) < Len(Rest(input))
    /\ \E k \in 1..Steps : hist[k].escape

----------------------------------------------------------------------------
(* Termination, under the fairness a running call has: the loop goes on    *)
(* until it breaks or the iterator is exhausted, and then returns.         *)
FairSpec == Spec /\ WF_vars(Step) /\ WF_vars(Return)
Terminates == (pc = "loop") ~> (pc = "returned")

====
